---- MODULE Spec2Model ----
(***************************************************************************)
(* A model of the timing-critical measurement subsystem of scistream/indis:*)
(*   - tcp_flow_monitor.py   : the flow-lifecycle tracker                  *)
(*   - experiment_client.py  : the batch load generator, its completion    *)
(*                             waiter and its signal handling              *)
(*   - datastore.py          : the CSV store of experiment results         *)
(*   - experiment_orchestrator.py : the server side of an experiment       *)
(*   - experiment_automation.py   : the runner of distributed experiments  *)
(* Time is integer valued; time.time() reads the variable clock, which     *)
(* never decreases.                                                        *)
(***************************************************************************)
EXTENDS Integers, Sequences, FiniteSets, TLC

\* ------------------------------------------------------------------ bounds
Flows == {"A", "B"}          \* the flow identities a snapshot may contain
MaxTime == 4                 \* the environment stops advancing the clock here
MaxTicks == 4                \* ticks of the tracker that are explored
MaxDuration == 4             \* largest configured run duration D of the tracker
MaxInterval == 2             \* largest configured check interval
MaxBatches == 3              \* largest configured number of batches (duration of the client)
MaxClients == 3              \* largest configured batch size C
MaxSpawned == 4              \* largest number of clients one run is configured to spawn
MaxSignals == 2              \* signals delivered to the client in one run
MaxPolls == 2                \* poll rounds of wait_for_clients that are explored
Resolution == 2              \* time units per second in the timed model of run_experiment
MaxServers == 3              \* largest number of iperf servers one orchestrator starts
MaxSaves == 3                \* calls of save_experiment in one run of the store
InitialPort == 5101          \* the default of --initial-port

VARIABLES
    \* ---- run_flow_monitor (tcp_flow_monitor.py)
    t_pc,                    \* position of the tracker's thread
    clock,                   \* what time.time() returns
    cfg_duration,            \* the duration argument as passed by the caller (D)
    duration,                \* the local name `duration` (parameter, reassigned at line 52)
    check_interval,          \* the check_interval argument
    start_ts,                \* line 33
    loop_start_time,         \* line 35
    now,                     \* line 37
    current_flows,           \* line 38
    observed_flows,          \* line 28: dict flow -> first seen, as its item sequence
    ended_flows_within_tick, \* line 45
    log,                     \* the lines written to the log file, each with the flow and
                             \* the tick it was written for
    hist,                    \* history: one record per tick taken, [now, flows]
    t_fault,                 \* what failed in the tick in progress: "none", "source_empty"
                             \* (ss ran, exited with an error and printed nothing),
                             \* "source_raised" (ss could not be run), "sink_raised"
    \* ---- ExperimentClient (experiment_client.py)
    c_pc,                    \* position of the client's main thread
    c_duration,              \* self.duration: the number of batches
    clients_per_second,      \* self.clients_per_second: the batch size C
    current_port,            \* self.current_port
    batch_num,               \* the loop variable of run_experiment (0-based)
    client_num,              \* the loop variable of spawn_client_batch
    futures,                 \* spawn_client_batch: the tasks submitted for this batch
    batch_processes,         \* spawn_client_batch: the result being built (ports of handles)
    active_processes,        \* self.active_processes (ports of handles)
    stop_event,              \* self.stop_event
    proc,                    \* the client processes started: port -> [state, batch, terms]
    total_clients,           \* wait_for_clients: total_clients
    completed,               \* wait_for_clients: completed
    poll_rounds,             \* history: poll rounds of wait_for_clients performed
    batches_started,         \* history: batches whose spawning has begun
    signals,                 \* history: SIGINT/SIGTERM delivered so far
    live_at_signal,          \* history: the processes live when the first signal arrived
    attempts,                \* history: the ports drawn so far, in the order drawn
    \* ---- ExperimentClient.run_experiment, its timing (experiment_client.py)
    s_pc,                    \* position of the main thread in run_experiment
    s_clock,                 \* what time.time() returns to the client
    s_duration,              \* self.duration
    experiment_start_time,   \* line 105
    s_batch_num,             \* the loop variable batch_num
    s_batch_start,           \* history: the time at which the batch in progress began
    current_time,            \* line 125
    sleep_time,              \* line 126
    batch_log,               \* history: per batch spawned, [num, start, finish]
    \* ---- ExperimentDatastore (datastore.py)
    csv_file,                \* the rows of the CSV file below its header, each a record
                             \* of cell texts [id, timestamp, Freq, size]; "" is an empty cell
    d_clock,                 \* datetime.now(), counted in calls of save_experiment
    d_call,                  \* history: the arguments of the last call, or <<>>
    d_saved,                 \* history: the experiment ids saved so far
    \* ---- ExperimentOrchestrator (experiment_orchestrator.py)
    o_pc,                    \* position of the orchestrator's main thread
    o_duration,              \* self.duration
    o_cps,                   \* self.clients_per_second
    initial_port,            \* self.initial_port
    o_i,                     \* the loop variable of start_iperf_servers
    server_processes,        \* self.server_processes (ports of the handles)
    monitor_process,         \* self.monitor_process is set
    flow_monitor_process,    \* self.flow_monitor_process is set
    srv,                     \* the iperf servers started: port -> [state, terms]
    mon,                     \* the monitors: name -> [state, terms], state "none" before start
    o_k,                     \* the position of cleanup in self.server_processes
    o_after,                 \* who called cleanup: "start_monitors" or "finally"
    o_signals,               \* history: interrupts delivered to the orchestrator
    o_path,                  \* history: how control came to leave the try block of run
    o_cleanups,              \* history: cleanup passes that ran to their end
    \* ---- ExperimentAutomation.run_single_experiment (experiment_automation.py)
    a_pc,                    \* position of run_single_experiment
    a_duration,              \* its parameter duration
    concurrency,             \* its parameter concurrency
    client_rate,             \* its parameter client_rate
    a_port,                  \* its parameter port
    a_client_port,           \* the remote client's _current_port
    connections,             \* history: the client's connects, [port, server]
    a_result                 \* what run_single_experiment returned

t_vars == <<t_pc, clock, cfg_duration, duration, check_interval, start_ts,
            loop_start_time, now, current_flows, observed_flows,
            ended_flows_within_tick, log, hist, t_fault>>

c_vars == <<c_pc, c_duration, clients_per_second, current_port, batch_num, client_num,
            futures, batch_processes, active_processes, stop_event, proc, total_clients,
            completed, poll_rounds, batches_started, signals, live_at_signal, attempts>>

s_vars == <<s_pc, s_clock, s_duration, experiment_start_time, s_batch_num, s_batch_start,
            current_time, sleep_time, batch_log>>

d_vars == <<csv_file, d_clock, d_call, d_saved>>

o_vars == <<o_pc, o_duration, o_cps, initial_port, o_i, server_processes, monitor_process,
            flow_monitor_process, srv, mon, o_k, o_after, o_signals, o_path, o_cleanups>>

a_vars == <<a_pc, a_duration, concurrency, client_rate, a_port, a_client_port, connections,
            a_result>>

vars == <<t_vars, c_vars, s_vars, d_vars, o_vars, a_vars>>

\* What a step of one component leaves alone.
NotTracker == <<c_vars, s_vars, d_vars, o_vars, a_vars>>
NotClient == <<t_vars, s_vars, d_vars, o_vars, a_vars>>
NotSchedule == <<t_vars, c_vars, d_vars, o_vars, a_vars>>
NotStore == <<t_vars, c_vars, s_vars, o_vars, a_vars>>
NotOrchestrator == <<t_vars, c_vars, s_vars, d_vars, a_vars>>
NotExperiment == <<t_vars, c_vars, s_vars, d_vars>>

\* ------------------------------------------------------- dict / list helpers
Max(a, b) == IF a >= b THEN a ELSE b

\* The keys of a dict given as its item sequence.
Keys(d) == {d[i].flow : i \in DOMAIN d}

\* d[k] for a key of d.
Lookup(d, k) == (CHOOSE i \in DOMAIN d : d[i].flow = k)

Get(d, k) == d[Lookup(d, k)].first_seen

\* d[k] = v : a present key keeps its place and gets the value, a new key is appended.
DictSet(d, k, v) ==
    IF k \in Keys(d)
    THEN [i \in DOMAIN d |-> IF d[i].flow = k THEN [flow |-> k, first_seen |-> v] ELSE d[i]]
    ELSE Append(d, [flow |-> k, first_seen |-> v])

\* Variant of DictDel: the entry is not deleted.
DictDel_none(d, k) == d

\* del d[k]
DictDel(d, k) == SelectSeq(d, LAMBDA e : e.flow # k)

\* list(d.keys())
KeyList(d) == [i \in DOMAIN d |-> d[i].flow]

\* The orders in which a set may be iterated.
Orders(S) == {s \in [1..Cardinality(S) -> S] : \A i, j \in DOMAIN s : i # j => s[i] # s[j]}

\* ------------------------------------------------------- run_flow_monitor
\* Variant of RegisterNew: the timestamp is read one time unit after the tick's own.
RECURSIVE RegisterNew_late(_, _, _)
RegisterNew_late(obs, order, nowv) ==
    IF order = <<>> THEN obs
    ELSE LET flow == Head(order) IN
         RegisterNew_late(IF flow \notin Keys(obs) THEN DictSet(obs, flow, nowv + 1) ELSE obs,
                          Tail(order), nowv)

\* Variant of RegisterNew: the test `flow not in observed_flows` is missing.
RECURSIVE RegisterNew_overwrite(_, _, _)
RegisterNew_overwrite(obs, order, nowv) ==
    IF order = <<>> THEN obs
    ELSE RegisterNew_overwrite(DictSet(obs, Head(order), nowv), Tail(order), nowv)

\* lines 41-43: for flow in current_flows: if flow not in observed_flows: observed_flows[flow] = now
RECURSIVE RegisterNew(_, _, _)
RegisterNew(obs, order, nowv) ==
    IF order = <<>> THEN obs
    ELSE LET flow == Head(order) IN
         RegisterNew(IF flow \notin Keys(obs) THEN DictSet(obs, flow, nowv) ELSE obs,
                     Tail(order), nowv)

\* line 50
StartedInRun(start_time, sts) == start_time >= sts

\* line 53
EndedWithinTick(end_time, nowv, ci) == end_time - nowv < ci

\* Variant of FlowInfo: the subtraction is the wrong way round.
FlowInfo_swapped(flow, start_time, nowv) ==
    [flow |-> flow, st |-> start_time, et |-> nowv, dur |-> start_time - nowv]

\* lines 51-52, 55: the tuple (flow, start_time, end_time, duration)
FlowInfo(flow, start_time, nowv) ==
    [flow |-> flow, st |-> start_time, et |-> nowv, dur |-> nowv - start_time]

\* lines 48-57 for one flow of list(observed_flows.keys()); s = [obs, ended, duration]
EndFlow(s, flow, cur, nowv, sts, ci) ==
    IF flow \notin cur
    THEN LET start_time == Get(s.obs, flow)
             info == FlowInfo(flow, start_time, nowv)
         IN  [obs |-> DictDel(s.obs, flow),
              ended |-> IF StartedInRun(start_time, sts) /\ EndedWithinTick(info.et, nowv, ci)
                        THEN Append(s.ended, info) ELSE s.ended,
              duration |-> IF StartedInRun(start_time, sts) THEN info.dur ELSE s.duration]
    ELSE s

\* lines 47-57: the loop over list(observed_flows.keys())
RECURSIVE ScanEnded(_, _, _, _, _, _)
ScanEnded(s, keys, cur, nowv, sts, ci) ==
    IF keys = <<>> THEN s
    ELSE ScanEnded(EndFlow(s, Head(keys), cur, nowv, sts, ci), Tail(keys), cur, nowv, sts, ci)

\* lines 62-63: the log line carries the end time (formatted) and the three numbers, not the flow
LogLine(info) == [stamp |-> info.et, start |-> info.st, end |-> info.et, duration |-> info.dur]

\* Variant of WriteAll: every line is written twice.
WriteAll_twice(lg, infos, n) ==
    LET lines == [i \in DOMAIN infos |->
                    [line |-> LogLine(infos[i]), flow |-> infos[i].flow, tick |-> n]]
    IN  lg \o lines \o lines

\* lines 60-65: one line per flow_info, written and flushed; n is the tick
WriteAll(lg, infos, n) ==
    lg \o [i \in DOMAIN infos |-> [line |-> LogLine(infos[i]), flow |-> infos[i].flow, tick |-> n]]

\* line 69
SleepTime(ci, loop_duration) == Max(0, ci - loop_duration)

\* line 34: the loop condition
KeepRunning(t, sts, dur) == t - sts < dur

\* The tracker's variables before run_flow_monitor is called.
TIdle ==
    /\ t_pc = "start" /\ clock = 0 /\ cfg_duration = 1 /\ duration = 1 /\ check_interval = 0
    /\ start_ts = 0 /\ loop_start_time = 0 /\ now = 0 /\ current_flows = {}
    /\ observed_flows = <<>> /\ ended_flows_within_tick = <<>> /\ log = <<>> /\ hist = <<>>
    /\ t_fault = "none"

\* lines 19-29: the client as constructed, for the given duration and batch size
CNew(d, c) ==
    /\ c_pc = "start" /\ c_duration = d /\ clients_per_second = c
    /\ current_port = InitialPort /\ batch_num = 0 /\ client_num = 0
    /\ futures = <<>> /\ batch_processes = <<>> /\ active_processes = <<>>
    /\ stop_event = FALSE /\ proc = <<>> /\ total_clients = 0 /\ completed = 0
    /\ poll_rounds = 0 /\ batches_started = 0 /\ signals = 0 /\ live_at_signal = {}
    /\ attempts = <<>>

\* The client's variables while only the tracker runs.
CIdle == CNew(1, 1)

\* The variables of the timed run_experiment before it is called with duration d.
SNew(pc, d) ==
    /\ s_pc = pc /\ s_clock = 0 /\ s_duration = d /\ experiment_start_time = 0
    /\ s_batch_num = 0 /\ s_batch_start = 0 /\ current_time = 0 /\ sleep_time = 0
    /\ batch_log = <<>>

\* The same while another component runs.
SIdle == SNew("idle", 1)

\* lines 10-24: the store as constructed where no file exists: a file with the header only
DIdle == csv_file = <<>> /\ d_clock = 0 /\ d_call = <<>> /\ d_saved = {}

\* experiment_orchestrator.py lines 40-41: the ports of range(self.total_servers), where
\* line 21 has total_servers = duration * clients_per_second
ServerPorts(p, total) == {p + i : i \in 0 .. total - 1}

\* A process no Popen has started yet; terms counts the terminate() calls it was sent.
NotStarted == [state |-> "none", terms |-> 0]

\* experiment_orchestrator.py lines 15-28: the orchestrator as constructed for duration
\* d, c clients per second and initial port p; no process is started yet
ONew(pc, d, c, p) ==
    /\ o_pc = pc /\ o_duration = d /\ o_cps = c /\ initial_port = p /\ o_i = 0
    /\ server_processes = <<>> /\ monitor_process = FALSE /\ flow_monitor_process = FALSE
    /\ srv = [port \in ServerPorts(p, d * c) |-> NotStarted]
    /\ mon = [m \in {"network monitor", "TCP flow monitor"} |-> NotStarted]
    /\ o_k = 0 /\ o_after = "finally" /\ o_signals = 0 /\ o_path = "none" /\ o_cleanups = 0

\* The same while no orchestrator runs.
OIdle == ONew("idle", 1, 1, InitialPort)

\* experiment_automation.py lines 48-50: run_single_experiment as called with duration
\* d, concurrency cs, client_rate cc and port p
ANew(pc, d, cs, cc, p) ==
    /\ a_pc = pc /\ a_duration = d /\ concurrency = cs /\ client_rate = cc /\ a_port = p
    /\ a_client_port = p /\ connections = <<>> /\ a_result = "none"

\* The same while no experiment is run.
AIdle == ANew("idle", 1, 1, 1, InitialPort)

TInit ==
    /\ t_pc = "start"
    /\ clock = 0
    /\ cfg_duration \in 1..MaxDuration
    /\ duration = cfg_duration
    /\ check_interval \in 0..MaxInterval
    /\ start_ts = 0
    /\ loop_start_time = 0
    /\ now = 0
    /\ current_flows = {}
    /\ observed_flows = <<>>
    /\ ended_flows_within_tick = <<>>
    /\ log = <<>>
    /\ hist = <<>>
    /\ t_fault = "none"
    /\ CIdle
    /\ SIdle
    /\ DIdle
    /\ OIdle
    /\ AIdle

\* The clock advances while the tracker runs.
Tock ==
    /\ t_pc \notin {"done", "raised"}
    /\ clock < MaxTime
    /\ clock' = clock + 1
    /\ UNCHANGED <<t_pc, cfg_duration, duration, check_interval, start_ts, loop_start_time,
                   now, current_flows, observed_flows, ended_flows_within_tick, log, hist>>
    /\ UNCHANGED t_fault
    /\ UNCHANGED NotTracker

\* line 33
T_Start ==
    /\ t_pc = "start"
    /\ start_ts' = clock
    /\ t_pc' = "cond"
    /\ UNCHANGED <<clock, cfg_duration, duration, check_interval, loop_start_time, now,
                   current_flows, observed_flows, ended_flows_within_tick, log, hist>>
    /\ UNCHANGED t_fault
    /\ UNCHANGED NotTracker

\* line 34, true: enter the body, line 35
T_Enter ==
    /\ t_pc = "cond"
    /\ KeepRunning(clock, start_ts, duration)
    /\ Len(hist) < MaxTicks
    /\ loop_start_time' = clock
    /\ t_pc' = "snapshot"
    /\ t_fault' = "none"
    /\ UNCHANGED <<clock, cfg_duration, duration, check_interval, start_ts, now,
                   current_flows, observed_flows, ended_flows_within_tick, log, hist>>
    /\ UNCHANGED NotTracker

\* Variant of T_Finish: the flows still in the table are closed and logged at the end.
T_Finish_flush ==
    /\ t_pc = "cond"
    /\ ~KeepRunning(clock, start_ts, duration)
    /\ t_pc' = "done"
    /\ log' = WriteAll(log, [i \in DOMAIN observed_flows |->
                   FlowInfo(observed_flows[i].flow, observed_flows[i].first_seen, clock)],
                   Len(hist))
    /\ UNCHANGED <<clock, cfg_duration, duration, check_interval, start_ts, loop_start_time,
                   now, current_flows, observed_flows, ended_flows_within_tick, hist>>
    /\ UNCHANGED t_fault
    /\ UNCHANGED NotTracker

\* line 34, false: the with block and the function end
T_Finish ==
    /\ t_pc = "cond"
    /\ ~KeepRunning(clock, start_ts, duration)
    /\ t_pc' = "done"
    /\ UNCHANGED <<clock, cfg_duration, duration, check_interval, start_ts, loop_start_time,
                   now, current_flows, observed_flows, ended_flows_within_tick, log, hist>>
    /\ UNCHANGED t_fault
    /\ UNCHANGED NotTracker

\* lines 37-57: the snapshot S is registered in some iteration order, then the table is
\* scanned for ended flows; fault tells whether S is what ss listed
TakeSnapshot(S, fault) ==
    \E order \in Orders(S) :
         LET registered == RegisterNew(observed_flows, order, clock)
             s == ScanEnded([obs |-> registered, ended |-> <<>>, duration |-> duration],
                            KeyList(registered), S, clock, start_ts, check_interval)
         IN  /\ now' = clock
             /\ current_flows' = S
             /\ observed_flows' = s.obs
             /\ ended_flows_within_tick' = s.ended
             /\ duration' = s.duration
             /\ hist' = Append(hist, [now |-> clock, flows |-> S])
             /\ t_fault' = fault

\* lines 37-57: one tick with the snapshot that ss lists
T_Tick ==
    /\ t_pc = "snapshot"
    /\ \E S \in SUBSET Flows : TakeSnapshot(S, "none")
    /\ t_pc' = "log"
    /\ UNCHANGED <<clock, cfg_duration, check_interval, start_ts, loop_start_time, log>>
    /\ UNCHANGED NotTracker

\* lines 12-24 and 37-57: ss exits with an error and prints nothing; the exit status is
\* not looked at (lines 12-14), so the tick goes on with no flow at all as its snapshot
T_TickSourceEmpty ==
    /\ t_pc = "snapshot"
    /\ TakeSnapshot({}, "source_empty")
    /\ t_pc' = "log"
    /\ UNCHANGED <<clock, cfg_duration, check_interval, start_ts, loop_start_time, log>>
    /\ UNCHANGED NotTracker

\* lines 12-14 and 38: ss cannot be run; subprocess.run raises and nothing catches it
T_SnapshotRaises ==
    /\ t_pc = "snapshot"
    /\ t_pc' = "raised"
    /\ t_fault' = "source_raised"
    /\ UNCHANGED <<clock, cfg_duration, duration, check_interval, start_ts, loop_start_time,
                   now, current_flows, observed_flows, ended_flows_within_tick, log, hist>>
    /\ UNCHANGED NotTracker

\* lines 60-65: log.write or log.flush raises at one of the lines, after k lines were
\* written; nothing catches it
T_LogFails ==
    /\ t_pc = "log"
    /\ \E k \in 0..(Len(ended_flows_within_tick) - 1) :
         log' = WriteAll(log, SubSeq(ended_flows_within_tick, 1, k), Len(hist))
    /\ t_pc' = "raised"
    /\ t_fault' = "sink_raised"
    /\ UNCHANGED <<clock, cfg_duration, duration, check_interval, start_ts, loop_start_time,
                   now, current_flows, observed_flows, ended_flows_within_tick, hist>>
    /\ UNCHANGED NotTracker

\* lines 60-65
T_Log ==
    /\ t_pc = "log"
    /\ log' = WriteAll(log, ended_flows_within_tick, Len(hist))
    /\ t_pc' = "sleep"
    /\ UNCHANGED <<clock, cfg_duration, duration, check_interval, start_ts, loop_start_time,
                   now, current_flows, observed_flows, ended_flows_within_tick, hist>>
    /\ UNCHANGED t_fault
    /\ UNCHANGED NotTracker

\* lines 68-70
T_Sleep ==
    /\ t_pc = "sleep"
    /\ clock' = clock + SleepTime(check_interval, clock - loop_start_time)
    /\ t_pc' = "cond"
    /\ UNCHANGED <<cfg_duration, duration, check_interval, start_ts, loop_start_time, now,
                   current_flows, observed_flows, ended_flows_within_tick, log, hist>>
    /\ UNCHANGED t_fault
    /\ UNCHANGED NotTracker

TNext == Tock \/ T_Start \/ T_Enter \/ T_Finish \/ T_Tick \/ T_Log \/ T_Sleep

\* The tracker where ss runs and the log file can be written.
SpecTracker == TInit /\ [][TNext]_vars

TFaultNext == TNext \/ T_TickSourceEmpty \/ T_SnapshotRaises \/ T_LogFails

\* The tracker where ss may fail and a write to the log file may fail.
SpecTrackerFaults == TInit /\ [][TFaultNext]_vars

\* ------------------------------------------------------- ExperimentClient
\* process.poll() is None
Live(pr, p) == pr[p].state = "running"

\* lines 54-61: what can raise in the try block of a launch task: the open of the
\* client's log file, or Popen; either is caught by the one except clause
LaunchFailures == {"open_failed", "popen_failed"}

\* lines 37-61: what a launch task returns: a handle (the port names it), or None, and
\* then why
LaunchResults == {"ok"} \cup LaunchFailures

\* Variant of CollectResult: the test `if process` is missing.
CollectResult_all(bp, fut) == Append(bp, fut.port)

\* lines 85-86: if process: batch_processes.append(...)
CollectResult(bp, fut) == IF fut.state = "ok" THEN Append(bp, fut.port) ELSE bp

\* lines 188-192: cleanup terminates every handle of active_processes that is still live
Cleanup(pr, active) ==
    [p \in DOMAIN pr |->
        IF Live(pr, p) /\ (\E i \in DOMAIN active : active[i] = p)
        THEN [pr[p] EXCEPT !.terms = @ + 1]
        ELSE pr[p]]

\* Variant of KeepWaiting: the test of stop_event is inverted.
KeepWaiting_inverted(active, stop) == active # <<>> /\ stop

\* Variant of NextPort: the counter is not advanced.
NextPort_same(port) == port

\* line 76: self.current_port += 1
NextPort(port) == port + 1

\* line 154: the loop condition of wait_for_clients
KeepWaiting(active, stop) == active # <<>> /\ ~stop

\* line 108 with the range test of line 107
BatchBegins(b, d, stop) == b < d /\ ~stop

CInit ==
    /\ \E d \in 1..MaxBatches : \E c \in 1..MaxClients : d * c <= MaxSpawned /\ CNew(d, c)
    /\ TIdle
    /\ SIdle
    /\ DIdle
    /\ OIdle
    /\ AIdle

\* lines 204-209 and 96-105: handlers installed, directories made, the loop is entered
C_Start ==
    /\ c_pc = "start"
    /\ c_pc' = "loop"
    /\ UNCHANGED <<c_duration, clients_per_second, current_port, batch_num, client_num,
                   futures, batch_processes, active_processes, stop_event, proc,
                   total_clients, completed, poll_rounds, batches_started, signals,
                   live_at_signal>>
    /\ UNCHANGED NotClient
    /\ UNCHANGED attempts

\* lines 107-117 and 65-72: the top of a tick; a batch begins, or the loop is left
C_LoopTop ==
    /\ c_pc = "loop"
    /\ IF BatchBegins(batch_num, c_duration, stop_event)
       THEN /\ c_pc' = "submit"
            /\ client_num' = 0
            /\ futures' = <<>>
            /\ batch_processes' = <<>>
            /\ batches_started' = batches_started + 1
       ELSE /\ c_pc' = "wait_init"
            /\ UNCHANGED <<client_num, futures, batch_processes, batches_started>>
    /\ UNCHANGED <<c_duration, clients_per_second, current_port, batch_num,
                   active_processes, stop_event, proc, total_clients, completed,
                   poll_rounds, signals, live_at_signal>>
    /\ UNCHANGED NotClient
    /\ UNCHANGED attempts

\* lines 74-81: one port drawn and one launch task submitted, then the stagger sleep
C_Submit ==
    /\ c_pc = "submit"
    /\ client_num < clients_per_second
    /\ futures' = Append(futures, [port |-> current_port, batch |-> batch_num + 1,
                                   state |-> "pending", collected |-> FALSE])
    /\ current_port' = NextPort(current_port)
    /\ attempts' = Append(attempts, current_port)
    /\ client_num' = client_num + 1
    /\ UNCHANGED <<c_pc, c_duration, clients_per_second, batch_num, batch_processes,
                   active_processes, stop_event, proc, total_clients, completed,
                   poll_rounds, batches_started, signals, live_at_signal>>
    /\ UNCHANGED NotClient

\* line 74: the range is exhausted; line 83 begins
C_Submitted ==
    /\ c_pc = "submit"
    /\ client_num >= clients_per_second
    /\ c_pc' = "collect"
    /\ UNCHANGED <<c_duration, clients_per_second, current_port, batch_num, client_num,
                   futures, batch_processes, active_processes, stop_event, proc,
                   total_clients, completed, poll_rounds, batches_started, signals,
                   live_at_signal>>
    /\ UNCHANGED NotClient
    /\ UNCHANGED attempts

\* Variant of W_Launch: the task reads self.current_port when it runs instead of taking
\* the port it was submitted with.
W_Launch_reads_counter ==
    /\ \E i \in DOMAIN futures : \E r \in LaunchResults :
         /\ futures[i].state = "pending"
         /\ futures' = [futures EXCEPT ![i].state = r, ![i].port = current_port]
         /\ proc' = IF r = "ok" /\ current_port \notin DOMAIN proc
                    THEN proc @@ (current_port :>
                            [state |-> "running", batch |-> futures[i].batch, terms |-> 0])
                    ELSE proc
    /\ UNCHANGED <<c_pc, c_duration, clients_per_second, current_port, batch_num,
                   client_num, batch_processes, active_processes, stop_event,
                   total_clients, completed, poll_rounds, batches_started, signals,
                   live_at_signal>>
    /\ UNCHANGED NotClient
    /\ UNCHANGED attempts

\* lines 37-61, in a worker thread: the task of one future opens the log file and
\* starts the process, or fails and returns None
W_Launch ==
    /\ \E i \in DOMAIN futures : \E r \in LaunchResults :
         /\ futures[i].state = "pending"
         /\ futures' = [futures EXCEPT ![i].state = r]
         /\ proc' = IF r = "ok"
                    THEN proc @@ (futures[i].port :>
                            [state |-> "running", batch |-> futures[i].batch, terms |-> 0])
                    ELSE proc
    /\ UNCHANGED <<c_pc, c_duration, clients_per_second, current_port, batch_num,
                   client_num, batch_processes, active_processes, stop_event,
                   total_clients, completed, poll_rounds, batches_started, signals,
                   live_at_signal>>
    /\ UNCHANGED NotClient
    /\ UNCHANGED attempts

\* Variant of C_Collect: the result of a failed launch ends the batch and the run.
C_Collect_raises ==
    /\ c_pc = "collect"
    /\ \E i \in DOMAIN futures :
         /\ futures[i].state # "pending"
         /\ ~futures[i].collected
         /\ batch_processes' = CollectResult(batch_processes, futures[i])
         /\ futures' = [futures EXCEPT ![i].collected = TRUE]
         /\ c_pc' = IF futures[i].state \in LaunchFailures THEN "exiting" ELSE c_pc
    /\ UNCHANGED <<c_duration, clients_per_second, current_port, batch_num,
                   client_num, active_processes, stop_event, proc, total_clients,
                   completed, poll_rounds, batches_started, signals, live_at_signal>>
    /\ UNCHANGED NotClient
    /\ UNCHANGED attempts

\* lines 83-87: as_completed yields a finished future; its handle is kept if there is one
C_Collect ==
    /\ c_pc = "collect"
    /\ \E i \in DOMAIN futures :
         /\ futures[i].state # "pending"
         /\ ~futures[i].collected
         /\ batch_processes' = CollectResult(batch_processes, futures[i])
         /\ futures' = [futures EXCEPT ![i].collected = TRUE]
    /\ UNCHANGED <<c_pc, c_duration, clients_per_second, current_port, batch_num,
                   client_num, active_processes, stop_event, proc, total_clients,
                   completed, poll_rounds, batches_started, signals, live_at_signal>>
    /\ UNCHANGED NotClient
    /\ UNCHANGED attempts

\* Variant of AllYielded: the batch returns without waiting for its launch tasks.
AllYielded_nowait(futs) == TRUE

\* lines 83-88: as_completed has yielded every future of the batch, so every launch
\* task has returned, and the with block of the pool can be left
AllYielded(futs) == \A i \in DOMAIN futs : futs[i].collected

\* lines 88-92: every future has been yielded; the pool shuts down and the batch returns
C_Return ==
    /\ c_pc = "collect"
    /\ AllYielded(futures)
    /\ c_pc' = "extend"
    /\ UNCHANGED <<c_duration, clients_per_second, current_port, batch_num, client_num,
                   futures, batch_processes, active_processes, stop_event, proc,
                   total_clients, completed, poll_rounds, batches_started, signals,
                   live_at_signal>>
    /\ UNCHANGED NotClient
    /\ UNCHANGED attempts

\* lines 120-134: the batch result is added to active_processes; then the driver sleeps
\* (not after the last batch, and not when it is behind schedule) or goes straight on
C_Extend ==
    /\ c_pc = "extend"
    /\ active_processes' = active_processes \o batch_processes
    /\ \/ /\ batch_num < c_duration - 1
          /\ c_pc' = "sleep"
          /\ UNCHANGED batch_num
       \/ /\ c_pc' = "loop"
          /\ batch_num' = batch_num + 1
    /\ UNCHANGED <<c_duration, clients_per_second, current_port, client_num, futures,
                   batch_processes, stop_event, proc, total_clients, completed,
                   poll_rounds, batches_started, signals, live_at_signal>>
    /\ UNCHANGED NotClient
    /\ UNCHANGED attempts

\* line 131: the sleep ends and the next iteration begins
C_Sleep ==
    /\ c_pc = "sleep"
    /\ c_pc' = "loop"
    /\ batch_num' = batch_num + 1
    /\ UNCHANGED <<c_duration, clients_per_second, current_port, client_num, futures,
                   batch_processes, active_processes, stop_event, proc, total_clients,
                   completed, poll_rounds, batches_started, signals, live_at_signal>>
    /\ UNCHANGED NotClient
    /\ UNCHANGED attempts

\* lines 150-152
C_WaitInit ==
    /\ c_pc = "wait_init"
    /\ total_clients' = Len(active_processes)
    /\ completed' = 0
    /\ c_pc' = "wait_cond"
    /\ UNCHANGED <<c_duration, clients_per_second, current_port, batch_num, client_num,
                   futures, batch_processes, active_processes, stop_event, proc,
                   poll_rounds, batches_started, signals, live_at_signal>>
    /\ UNCHANGED NotClient
    /\ UNCHANGED attempts

\* line 154: another poll round, or lines 172-184 and the return of run
C_WaitCond ==
    /\ c_pc = "wait_cond"
    /\ c_pc' = IF KeepWaiting(active_processes, stop_event) THEN "poll" ELSE "done"
    /\ UNCHANGED <<c_duration, clients_per_second, current_port, batch_num, client_num,
                   futures, batch_processes, active_processes, stop_event, proc,
                   total_clients, completed, poll_rounds, batches_started, signals,
                   live_at_signal>>
    /\ UNCHANGED NotClient
    /\ UNCHANGED attempts

\* Variant of C_Poll: remaining_processes is not assigned back to active_processes.
C_Poll_keep ==
    /\ c_pc = "poll"
    /\ completed' = completed + Len(SelectSeq(active_processes, LAMBDA p : ~Live(proc, p)))
    /\ poll_rounds' = IF poll_rounds < MaxPolls THEN poll_rounds + 1 ELSE MaxPolls
    /\ c_pc' = "wait_cond"
    /\ UNCHANGED <<c_duration, clients_per_second, current_port, batch_num, client_num,
                   futures, batch_processes, active_processes, stop_event, proc,
                   total_clients, batches_started, signals, live_at_signal>>
    /\ UNCHANGED NotClient
    /\ UNCHANGED attempts

\* lines 155-170: one poll round over active_processes (poll_rounds counts the rounds
\* up to MaxPolls)
C_Poll ==
    /\ c_pc = "poll"
    /\ active_processes' = SelectSeq(active_processes, LAMBDA p : Live(proc, p))
    /\ completed' = completed + Len(SelectSeq(active_processes, LAMBDA p : ~Live(proc, p)))
    /\ poll_rounds' = IF poll_rounds < MaxPolls THEN poll_rounds + 1 ELSE MaxPolls
    /\ c_pc' = "wait_cond"
    /\ UNCHANGED <<c_duration, clients_per_second, current_port, batch_num, client_num,
                   futures, batch_processes, stop_event, proc, total_clients,
                   batches_started, signals, live_at_signal>>
    /\ UNCHANGED NotClient
    /\ UNCHANGED attempts

\* A client process finishes its transfer, or dies of the SIGTERM it was sent.
ProcExit ==
    /\ \E p \in DOMAIN proc :
         /\ Live(proc, p)
         /\ proc' = [proc EXCEPT ![p].state = "exited"]
    /\ UNCHANGED <<c_pc, c_duration, clients_per_second, current_port, batch_num,
                   client_num, futures, batch_processes, active_processes, stop_event,
                   total_clients, completed, poll_rounds, batches_started, signals,
                   live_at_signal>>
    /\ UNCHANGED NotClient
    /\ UNCHANGED attempts

\* Variant of signal_handler: it cleans up but neither sets stop_event nor exits.
signal_handler_nostop ==
    /\ c_pc \notin {"done", "exited"}
    /\ signals < MaxSignals
    /\ signals' = signals + 1
    /\ live_at_signal' = IF signals = 0 THEN {p \in DOMAIN proc : Live(proc, p)}
                         ELSE live_at_signal
    /\ proc' = Cleanup(proc, active_processes)
    /\ UNCHANGED <<c_pc, stop_event, c_duration, clients_per_second, current_port, batch_num,
                   client_num, futures, batch_processes, active_processes, total_clients,
                   completed, poll_rounds, batches_started>>
    /\ UNCHANGED NotClient
    /\ UNCHANGED attempts

\* lines 194-199: SIGINT or SIGTERM arrives while the main thread is anywhere in run
\* (also while SystemExit from an earlier signal is still on its way out):
\* stop_event.set(), cleanup(), sys.exit(0)
signal_handler ==
    /\ c_pc \notin {"done", "exited"}
    /\ signals < MaxSignals
    /\ signals' = signals + 1
    /\ live_at_signal' = IF signals = 0 THEN {p \in DOMAIN proc : Live(proc, p)}
                         ELSE live_at_signal
    /\ stop_event' = TRUE
    /\ proc' = Cleanup(proc, active_processes)
    /\ c_pc' = "exiting"
    /\ UNCHANGED <<c_duration, clients_per_second, current_port, batch_num, client_num,
                   futures, batch_processes, active_processes, total_clients, completed,
                   poll_rounds, batches_started>>
    /\ UNCHANGED NotClient
    /\ UNCHANGED attempts

\* SystemExit leaves run (it is no Exception, line 216 does not catch it); the pool's
\* shutdown and the interpreter's exit wait for the launch tasks already submitted
C_Exit ==
    /\ c_pc = "exiting"
    /\ \A i \in DOMAIN futures : futures[i].state # "pending"
    /\ c_pc' = "exited"
    /\ UNCHANGED <<c_duration, clients_per_second, current_port, batch_num, client_num,
                   futures, batch_processes, active_processes, stop_event, proc,
                   total_clients, completed, poll_rounds, batches_started, signals,
                   live_at_signal>>
    /\ UNCHANGED NotClient
    /\ UNCHANGED attempts

CNext ==
    \/ C_Start \/ C_LoopTop \/ C_Submit \/ C_Submitted \/ W_Launch \/ C_Collect
    \/ C_Return \/ C_Extend \/ C_Sleep \/ C_WaitInit \/ C_WaitCond \/ C_Poll
    \/ ProcExit \/ signal_handler \/ C_Exit

SpecClient == CInit /\ [][CNext]_vars

\* The steps of the main thread, which is never both alive and idle for ever.
CMain ==
    \/ C_Start \/ C_LoopTop \/ C_Submit \/ C_Submitted \/ C_Collect \/ C_Return
    \/ C_Extend \/ C_Sleep \/ C_WaitInit \/ C_WaitCond \/ C_Poll \/ C_Exit

\* The client when its threads keep running and every process it started exits in the
\* end. Whether a signal arrives is left open.
SpecClientLive ==
    /\ CInit /\ [][CNext]_vars
    /\ WF_vars(CMain) /\ WF_vars(W_Launch) /\ WF_vars(ProcExit)

\* ------------------------------------- ExperimentClient.run_experiment, timed
\* The loop of lines 105-134 with the clock, in a run that no signal interrupts. Time
\* passes while a batch is being spawned and in time.sleep, which sleeps the time asked.
\* A second is Resolution units of the clock.

\* Variant of NextBatchTime: the target of this batch is taken for that of the next.
NextBatchTime_this(origin, k) == origin + k * Resolution

\* line 124: next_batch_time = experiment_start_time + (batch_num + 1)
NextBatchTime(origin, k) == origin + (k + 1) * Resolution

\* line 126
CompensatingSleep(next_batch_time, t) == Max(0, next_batch_time - t)

SInit ==
    /\ \E d \in 1..MaxBatches : SNew("start", d)
    /\ TIdle
    /\ CIdle
    /\ DIdle
    /\ OIdle
    /\ AIdle

\* line 105
S_Start ==
    /\ s_pc = "start"
    /\ experiment_start_time' = s_clock
    /\ s_pc' = "loop"
    /\ UNCHANGED <<s_clock, s_duration, s_batch_num, s_batch_start, current_time,
                   sleep_time, batch_log>>
    /\ UNCHANGED NotSchedule

\* lines 107-120: the next batch begins, or the range is exhausted (line 136)
S_LoopTop ==
    /\ s_pc = "loop"
    /\ IF s_batch_num < s_duration
       THEN s_pc' = "spawn" /\ s_batch_start' = s_clock
       ELSE s_pc' = "done" /\ UNCHANGED s_batch_start
    /\ UNCHANGED <<s_clock, s_duration, experiment_start_time, s_batch_num, current_time,
                   sleep_time, batch_log>>
    /\ UNCHANGED NotSchedule

\* lines 63-92: time passes while spawn_client_batch runs
S_Tock ==
    /\ s_pc = "spawn"
    /\ s_clock < MaxTime
    /\ s_clock' = s_clock + 1
    /\ UNCHANGED <<s_pc, s_duration, experiment_start_time, s_batch_num, s_batch_start,
                   current_time, sleep_time, batch_log>>
    /\ UNCHANGED NotSchedule

\* lines 120-126: the batch has returned; the compensating sleep is computed
S_BatchDone ==
    /\ s_pc = "spawn"
    /\ current_time' = s_clock
    /\ sleep_time' = CompensatingSleep(NextBatchTime(experiment_start_time, s_batch_num),
                                       s_clock)
    /\ batch_log' = Append(batch_log, [num |-> s_batch_num + 1, start |-> s_batch_start,
                                       finish |-> s_clock])
    /\ s_pc' = "computed"
    /\ UNCHANGED <<s_clock, s_duration, experiment_start_time, s_batch_num, s_batch_start>>
    /\ UNCHANGED NotSchedule

\* Variant of S_Advance: ticks whose time has passed are skipped to catch up.
S_Advance_catchup ==
    /\ s_pc = "computed"
    /\ s_clock' = IF s_batch_num < s_duration - 1 /\ sleep_time > 0
                  THEN s_clock + sleep_time ELSE s_clock
    /\ s_batch_num' = Max(s_batch_num + 1, (s_clock - experiment_start_time) \div Resolution)
    /\ s_pc' = "loop"
    /\ UNCHANGED <<s_duration, experiment_start_time, s_batch_start, current_time,
                   sleep_time, batch_log>>
    /\ UNCHANGED NotSchedule

\* lines 128-134 and the next value of the range of line 107: the sleep, if this is not
\* the last batch and there is time left, then the next ordinal batch
S_Advance ==
    /\ s_pc = "computed"
    /\ s_clock' = IF s_batch_num < s_duration - 1 /\ sleep_time > 0
                  THEN s_clock + sleep_time ELSE s_clock
    /\ s_batch_num' = s_batch_num + 1
    /\ s_pc' = "loop"
    /\ UNCHANGED <<s_duration, experiment_start_time, s_batch_start, current_time,
                   sleep_time, batch_log>>
    /\ UNCHANGED NotSchedule

SNext == S_Start \/ S_LoopTop \/ S_Tock \/ S_BatchDone \/ S_Advance

SpecSchedule == SInit /\ [][SNext]_vars

\* ----------------------------------------------------- ExperimentDatastore
\* The file is read with pandas.read_csv and written back with DataFrame.to_csv on
\* every call. Of the 19 headers of lines 12-17 the model keeps id, timestamp, one
\* metric that callers give as a number (Freq) and one they give as a text (size).
Fields == {"id", "timestamp", "Freq", "size"}

\* The experiment ids given on the command line (--experiment-id), as texts.
IdTexts == {"exp", "1", "01"}

\* The cell texts that read_csv takes for an integer, and for a float.
IntTexts == {"1", "01", "4"}
FloatTexts == {"1.0", "4.0"}

\* str(int(t)) and str(float(t)): what to_csv writes for a cell read as a number
IntCanon(t) == IF t \in {"1", "01"} THEN "1" ELSE "4"
FloatCanon(t) == IF t \in {"1", "01", "1.0"} THEN "1.0" ELSE "4.0"

\* A cell of the DataFrame: its type and the text to_csv writes for it.
Cell(k, t) == [kind |-> k, text |-> t]

\* line 30: read_csv infers one type per column. A column in which every cell is an
\* integer text is int64; one of number texts and empty cells is float64 with NaN for
\* the empty cells; any other column holds the texts as str, with NaN for empty cells.
ReadColumn(cells) ==
    LET present == {i \in DOMAIN cells : cells[i] # ""}
    IN  [i \in DOMAIN cells |->
           IF cells[i] = "" THEN Cell("nan", "")
           ELSE IF \A j \in DOMAIN cells : cells[j] \in IntTexts
                THEN Cell("int", IntCanon(cells[i]))
           ELSE IF \A j \in present : cells[j] \in IntTexts \cup FloatTexts
                THEN Cell("float", FloatCanon(cells[i]))
           ELSE Cell("str", cells[i])]

\* line 30: the DataFrame of a file
ReadCsv(file) ==
    [i \in DOMAIN file |->
        [f \in Fields |-> ReadColumn([j \in DOMAIN file |-> file[j][f]])[i]]]

\* line 54: to_csv
WriteCsv(df) == [i \in DOMAIN df |-> [f \in Fields |-> df[i][f].text]]

\* line 40: experiment_id in df['id'].values, for the str experiment_id: a cell read
\* as a number is not equal to any str
IdMatches(cell, id) == cell.kind = "str" /\ cell.text = id

\* Variant of Overwrites: empty values overwrite too.
Overwrites_always(value) == TRUE

\* line 44: if value != ''
Overwrites(value) == value # ""

\* line 37: datetime.now().isoformat() at the n-th call
NowText(n) == "t" \o ToString(n)

\* lines 35-37: row_data, every header present, '' for a header not in kwargs
RowData(id, ts, kw, n) ==
    [f \in Fields |->
        CASE f = "id" -> id
          [] f = "timestamp" -> (IF ts # "" THEN ts ELSE NowText(n))
          [] OTHER -> kw[f]]

\* lines 42-45: the first row with the id takes the values that pass line 44
UpdateRow(df, idx, row) ==
    [df EXCEPT ![idx] = [f \in Fields |->
                            IF Overwrites(row[f]) THEN Cell("str", row[f]) ELSE @[f]]]

\* lines 29-54: save_experiment as the n-th call, on the file
SaveExperiment(file, id, ts, kw, n) ==
    LET df == ReadCsv(file)
        row == RowData(id, ts, kw, n)
        found == {i \in DOMAIN df : IdMatches(df[i].id, id)}
    IN  IF found # {}
        THEN WriteCsv(UpdateRow(df, CHOOSE i \in found : \A j \in found : i <= j, row))
        ELSE WriteCsv(Append(df, [f \in Fields |-> Cell("str", row[f])]))

DInit ==
    /\ DIdle
    /\ TIdle
    /\ CIdle
    /\ SIdle
    /\ OIdle
    /\ AIdle

\* lines 26-54: one call of save_experiment
D_Save ==
    /\ d_clock < MaxSaves
    /\ \E id \in IdTexts : \E ts \in {"", "t0"} : \E fr \in {"", "4"} : \E sz \in {"", "0.1G"} :
         LET kw == [Freq |-> fr, size |-> sz]
         IN  /\ csv_file' = SaveExperiment(csv_file, id, ts, kw, d_clock + 1)
             /\ d_call' = <<[id |-> id, timestamp |-> ts, Freq |-> fr, size |-> sz]>>
             /\ d_saved' = d_saved \cup {id}
    /\ d_clock' = d_clock + 1
    /\ UNCHANGED NotStore

DNext == D_Save

SpecStore == DInit /\ [][DNext]_vars

\* =============================================== experiment_orchestrator.py
\* The orchestrator's main thread runs ExperimentOrchestrator.run (lines 147-178).
\* o_pc is its position:
\*   "start"                    lines 149-154, before the try block
\*   "servers", "srv_forked"    the loop of start_iperf_servers (lines 40-55); at
\*                              "srv_forked" a child was created and Popen's handle is
\*                              not yet appended to self.server_processes
\*   "mon_net", "net_forked", "mon_flow", "flow_forked"
\*                              the loop of start_monitors (lines 74-85)
\*   "wait", "analysis"         wait_and_analyze and run_analysis
\*   "finally"                  the finally clause, before cleanup is entered
\*   "c_net", "c_net_wait", "c_flow", "c_flow_wait", "c_srv"
\*                              cleanup (lines 127-145)
\*   "exited"                   control has left run

CleanupPcs == {"c_net", "c_net_wait", "c_flow", "c_flow_wait", "c_srv"}

\* lines 156-173: the positions inside the try block of run; cleanup is inside it when
\* start_monitors called it (line 84)
InTry ==
    \/ o_pc \in {"servers", "srv_forked", "mon_net", "net_forked", "mon_flow",
                 "flow_forked", "wait", "analysis"}
    \/ o_pc \in CleanupPcs /\ o_after = "start_monitors"

\* lines 177-178: the positions inside the finally clause of run
InFinally == o_pc = "finally" \/ (o_pc \in CleanupPcs /\ o_after = "finally")

Sent(p) == [p EXCEPT !.terms = @ + 1]

\* lines 149-158: the banner is printed and, inside the try block, setup_directories runs
O_Start ==
    /\ o_pc = "start"
    /\ o_pc' = "servers"
    /\ UNCHANGED <<o_duration, o_cps, initial_port, o_i, server_processes, monitor_process,
                   flow_monitor_process, srv, mon, o_k, o_after, o_signals, o_path,
                   o_cleanups>>
    /\ UNCHANGED NotOrchestrator

\* lines 40-48, 54-55: one iteration of start_iperf_servers up to Popen, which either
\* creates the server process or raises an Exception that is printed and dropped
O_PopenServer ==
    /\ o_pc = "servers"
    /\ o_i < o_duration * o_cps
    /\ \E started \in BOOLEAN :
          IF started
          THEN /\ srv' = [srv EXCEPT ![initial_port + o_i].state = "running"]
               /\ o_pc' = "srv_forked"
               /\ o_i' = o_i
          ELSE /\ o_i' = o_i + 1
               /\ UNCHANGED <<srv, o_pc>>
    /\ UNCHANGED <<o_duration, o_cps, initial_port, server_processes, monitor_process,
                   flow_monitor_process, mon, o_k, o_after, o_signals, o_path, o_cleanups>>
    /\ UNCHANGED NotOrchestrator

\* line 49: the handle is appended to self.server_processes
O_RecordServer ==
    /\ o_pc = "srv_forked"
    /\ server_processes' = Append(server_processes, initial_port + o_i)
    /\ o_i' = o_i + 1
    /\ o_pc' = "servers"
    /\ UNCHANGED <<o_duration, o_cps, initial_port, monitor_process, flow_monitor_process,
                   srv, mon, o_k, o_after, o_signals, o_path, o_cleanups>>
    /\ UNCHANGED NotOrchestrator

\* lines 57, 162: the loop is over; run sleeps two seconds and enters start_monitors
O_ServersStarted ==
    /\ o_pc = "servers"
    /\ o_i = o_duration * o_cps
    /\ o_pc' = "mon_net"
    /\ UNCHANGED <<o_duration, o_cps, initial_port, o_i, server_processes, monitor_process,
                   flow_monitor_process, srv, mon, o_k, o_after, o_signals, o_path,
                   o_cleanups>>
    /\ UNCHANGED NotOrchestrator

\* lines 74-77, 81-85: Popen of the network monitor; its failure is critical: cleanup is
\* called and then sys.exit(1)
O_PopenNetMonitor ==
    /\ o_pc = "mon_net"
    /\ \E started \in BOOLEAN :
          IF started
          THEN /\ mon' = [mon EXCEPT !["network monitor"].state = "running"]
               /\ o_pc' = "net_forked"
               /\ UNCHANGED <<o_after, o_path>>
          ELSE /\ o_pc' = "c_net"
               /\ o_after' = "start_monitors"
               /\ o_path' = "monitor_failed"
               /\ UNCHANGED mon
    /\ UNCHANGED <<o_duration, o_cps, initial_port, o_i, server_processes, monitor_process,
                   flow_monitor_process, srv, o_k, o_signals, o_cleanups>>
    /\ UNCHANGED NotOrchestrator

\* line 77: the handle is stored in self.monitor_process
O_RecordNetMonitor ==
    /\ o_pc = "net_forked"
    /\ monitor_process' = TRUE
    /\ o_pc' = "mon_flow"
    /\ UNCHANGED <<o_duration, o_cps, initial_port, o_i, server_processes,
                   flow_monitor_process, srv, mon, o_k, o_after, o_signals, o_path,
                   o_cleanups>>
    /\ UNCHANGED NotOrchestrator

\* lines 78-83, 166: Popen of the flow monitor; its failure is printed and dropped
O_PopenFlowMonitor ==
    /\ o_pc = "mon_flow"
    /\ \E started \in BOOLEAN :
          IF started
          THEN /\ mon' = [mon EXCEPT !["TCP flow monitor"].state = "running"]
               /\ o_pc' = "flow_forked"
          ELSE /\ o_pc' = "wait"
               /\ UNCHANGED mon
    /\ UNCHANGED <<o_duration, o_cps, initial_port, o_i, server_processes, monitor_process,
                   flow_monitor_process, srv, o_k, o_after, o_signals, o_path, o_cleanups>>
    /\ UNCHANGED NotOrchestrator

\* line 79: the handle is stored in self.flow_monitor_process
O_RecordFlowMonitor ==
    /\ o_pc = "flow_forked"
    /\ flow_monitor_process' = TRUE
    /\ o_pc' = "wait"
    /\ UNCHANGED <<o_duration, o_cps, initial_port, o_i, server_processes, monitor_process,
                   srv, mon, o_k, o_after, o_signals, o_path, o_cleanups>>
    /\ UNCHANGED NotOrchestrator

\* lines 87-100: wait_and_analyze sleeps for duration + post_delay + 5 seconds
O_Wait ==
    /\ o_pc = "wait"
    /\ o_pc' = "analysis"
    /\ UNCHANGED <<o_duration, o_cps, initial_port, o_i, server_processes, monitor_process,
                   flow_monitor_process, srv, mon, o_k, o_after, o_signals, o_path,
                   o_cleanups>>
    /\ UNCHANGED NotOrchestrator

\* lines 102-125, 177: run_analysis returns and the try block is left normally
O_Analysis ==
    /\ o_pc = "analysis"
    /\ o_pc' = "finally"
    /\ o_path' = "normal"
    /\ UNCHANGED <<o_duration, o_cps, initial_port, o_i, server_processes, monitor_process,
                   flow_monitor_process, srv, mon, o_k, o_after, o_signals, o_cleanups>>
    /\ UNCHANGED NotOrchestrator

\* line 178: the finally clause calls cleanup
O_Finally ==
    /\ o_pc = "finally"
    /\ o_pc' = "c_net"
    /\ o_after' = "finally"
    /\ UNCHANGED <<o_duration, o_cps, initial_port, o_i, server_processes, monitor_process,
                   flow_monitor_process, srv, mon, o_k, o_signals, o_path, o_cleanups>>
    /\ UNCHANGED NotOrchestrator

\* lines 132-134 and 136-138: cleanup of one monitor. Where the handle is set and poll()
\* is None the process is sent terminate and cleanup goes on to wait for it
CleanupMonitor(name, handle, wait_pc, next_pc) ==
    /\ IF handle /\ mon[name].state = "running"
       THEN /\ mon' = [mon EXCEPT ![name] = Sent(@)]
            /\ o_pc' = wait_pc
       ELSE /\ o_pc' = next_pc
            /\ UNCHANGED mon
    /\ o_k' = 1
    /\ UNCHANGED <<o_duration, o_cps, initial_port, o_i, server_processes, monitor_process,
                   flow_monitor_process, srv, o_after, o_signals, o_path, o_cleanups>>
    /\ UNCHANGED NotOrchestrator

\* lines 134 and 138: wait() returns once the monitor has exited
CleanupWait(name, next_pc) ==
    /\ mon[name].state = "exited"
    /\ o_pc' = next_pc
    /\ UNCHANGED <<o_duration, o_cps, initial_port, o_i, server_processes, monitor_process,
                   flow_monitor_process, srv, mon, o_k, o_after, o_signals, o_path,
                   o_cleanups>>
    /\ UNCHANGED NotOrchestrator

O_CleanupNetMonitor ==
    /\ o_pc = "c_net"
    /\ CleanupMonitor("network monitor", monitor_process, "c_net_wait", "c_flow")

O_WaitNetMonitor ==
    /\ o_pc = "c_net_wait"
    /\ CleanupWait("network monitor", "c_flow")

O_CleanupFlowMonitor ==
    /\ o_pc = "c_flow"
    /\ CleanupMonitor("TCP flow monitor", flow_monitor_process, "c_flow_wait", "c_srv")

O_WaitFlowMonitor ==
    /\ o_pc = "c_flow_wait"
    /\ CleanupWait("TCP flow monitor", "c_srv")

\* lines 141-143: one iteration over self.server_processes: a server whose poll() is None
\* is sent terminate, and is not waited for
O_CleanupServer ==
    /\ o_pc = "c_srv"
    /\ o_k <= Len(server_processes)
    /\ srv' = IF srv[server_processes[o_k]].state = "running"
              THEN [srv EXCEPT ![server_processes[o_k]] = Sent(@)]
              ELSE srv
    /\ o_k' = o_k + 1
    /\ UNCHANGED <<o_duration, o_cps, initial_port, o_i, server_processes, monitor_process,
                   flow_monitor_process, mon, o_pc, o_after, o_signals, o_path, o_cleanups>>
    /\ UNCHANGED NotOrchestrator

\* line 145, then line 85 or the end of run: cleanup returns. Called from start_monitors
\* it is followed by sys.exit(1), whose SystemExit leaves the try block for the finally
\* clause; called from the finally clause it is the last statement of run
O_CleanupComplete ==
    /\ o_pc = "c_srv"
    /\ o_k > Len(server_processes)
    /\ o_cleanups' = o_cleanups + 1
    /\ o_pc' = IF o_after = "start_monitors" THEN "finally" ELSE "exited"
    /\ UNCHANGED <<o_duration, o_cps, initial_port, o_i, server_processes, monitor_process,
                   flow_monitor_process, srv, mon, o_k, o_after, o_signals, o_path>>
    /\ UNCHANGED NotOrchestrator

\* lines 175-182, 204: an interrupt reaches the main thread at its present position: a
\* KeyboardInterrupt where no handler is installed, or the SystemExit of sys.exit(0) in
\* signal_handler, which main installs for SIGINT. Inside the try block either one leads
\* to the finally clause (KeyboardInterrupt through its except clause); before the try
\* block or inside the finally clause it leaves run. Lines 121-125: the bare except
\* around subprocess.run in run_analysis drops either one.
O_Interrupt ==
    /\ o_pc \notin {"idle", "exited"}
    /\ o_signals < MaxSignals
    /\ o_signals' = o_signals + 1
    /\ \E kind \in {"KeyboardInterrupt", "SystemExit"} :
          \/ /\ InTry
             /\ o_pc' = "finally"
             /\ o_path' = kind
          \/ /\ o_pc = "analysis"
             /\ UNCHANGED <<o_pc, o_path>>
          \/ /\ o_pc = "start" \/ InFinally
             /\ o_pc' = "exited"
             /\ o_path' = kind
    /\ UNCHANGED <<o_duration, o_cps, initial_port, o_i, server_processes, monitor_process,
                   flow_monitor_process, srv, mon, o_k, o_after, o_cleanups>>
    /\ UNCHANGED NotOrchestrator

\* lines 45, 66-67: a started process ends: an iperf server started with -1 after its one
\* client, a monitor after its -d seconds, either one after a terminate or a failure
O_ProcessExit ==
    /\ o_pc # "idle"
    /\ \/ \E port \in DOMAIN srv :
             /\ srv[port].state = "running"
             /\ srv' = [srv EXCEPT ![port].state = "exited"]
             /\ UNCHANGED mon
       \/ \E name \in DOMAIN mon :
             /\ mon[name].state = "running"
             /\ mon' = [mon EXCEPT ![name].state = "exited"]
             /\ UNCHANGED srv
    /\ UNCHANGED <<o_pc, o_duration, o_cps, initial_port, o_i, server_processes,
                   monitor_process, flow_monitor_process, o_k, o_after, o_signals, o_path,
                   o_cleanups>>
    /\ UNCHANGED NotOrchestrator

\* lines 192-217: main constructs the orchestrator from its options and calls run
OInit ==
    /\ \E d \in 1 .. MaxServers, c \in 1 .. MaxServers :
          /\ d * c <= MaxServers
          /\ ONew("start", d, c, InitialPort)
    /\ TIdle
    /\ CIdle
    /\ SIdle
    /\ DIdle
    /\ AIdle

ORun ==
    \/ O_Start
    \/ O_PopenServer
    \/ O_RecordServer
    \/ O_ServersStarted
    \/ O_PopenNetMonitor
    \/ O_RecordNetMonitor
    \/ O_PopenFlowMonitor
    \/ O_RecordFlowMonitor
    \/ O_Wait
    \/ O_Analysis
    \/ O_Finally
    \/ O_CleanupNetMonitor
    \/ O_WaitNetMonitor
    \/ O_CleanupFlowMonitor
    \/ O_WaitFlowMonitor
    \/ O_CleanupServer
    \/ O_CleanupComplete
    \/ O_ProcessExit

ONext ==
    \/ ORun
    \/ O_Interrupt

SpecOrchestrator == OInit /\ [][ONext]_vars

\* ================================================ experiment_automation.py
\* run_single_experiment (lines 48-81) runs the orchestrator on the server host and
\* then the client on the client host, each through run_ssh_command (lines 20-46).
\* a_pc is its position:
\*   "start"    lines 52-60, before the first run_ssh_command
\*   "step1"    inside run_ssh_command of line 62, the orchestrator as the remote command
\*   "pause"    time.sleep(2) of line 67
\*   "step2"    inside run_ssh_command of line 71, the client as the remote command
\*   "wait"     time.sleep(wait_time) of line 78
\*   "done"     run_single_experiment has returned a_result

\* experiment_client.py lines 74-76, 109-121: the number of clients one complete run of
\* the client launches, clients_per_second for each of the duration batches
TotalClients == a_duration * client_rate

\* lines 60-62, 22-38 and 44-46: run_ssh_command starts ssh with the orchestrator as the
\* remote command, -t duration -c concurrency -p port, which main of the orchestrator
\* constructs as in ONew; where ssh cannot be started or cannot reach the host no
\* orchestrator runs and False is returned
A_StartServer ==
    /\ a_pc = "start"
    /\ \E reached \in BOOLEAN :
          IF reached
          THEN /\ o_pc' = "start"
               /\ o_duration' = a_duration
               /\ o_cps' = concurrency
               /\ initial_port' = a_port
               /\ srv' = [port \in ServerPorts(a_port, a_duration * concurrency) |->
                              NotStarted]
               /\ UNCHANGED <<o_i, server_processes, monitor_process,
                              flow_monitor_process, mon, o_k, o_after, o_signals, o_path,
                              o_cleanups>>
               /\ a_pc' = "step1"
               /\ UNCHANGED a_result
          ELSE /\ a_pc' = "done"
               /\ a_result' = "False"
               /\ UNCHANGED o_vars
    /\ UNCHANGED <<a_duration, concurrency, client_rate, a_port, a_client_port, connections>>
    /\ UNCHANGED NotExperiment

\* lines 32-36 and 38-43, then 62-64: run_ssh_command reads the output of ssh to its end
\* and waits for ssh, which ends when the remote orchestrator has; it returns whether
\* the return code is 0, which it is not after sys.exit(1) of line 85 of the orchestrator
A_ServerReturned ==
    /\ a_pc = "step1"
    /\ o_pc = "exited"
    /\ IF o_path = "monitor_failed"
       THEN /\ a_pc' = "done"
            /\ a_result' = "False"
       ELSE /\ a_pc' = "pause"
            /\ UNCHANGED a_result
    /\ UNCHANGED <<a_duration, concurrency, client_rate, a_port, a_client_port, connections>>
    /\ UNCHANGED o_vars
    /\ UNCHANGED NotExperiment

\* lines 67-71: the pause of two seconds, then run_ssh_command starts ssh with the client
\* as the remote command, -t duration -c client_rate -p port
A_StartClient ==
    /\ a_pc = "pause"
    /\ \E reached \in BOOLEAN :
          IF reached
          THEN /\ a_pc' = "step2"
               /\ UNCHANGED a_result
          ELSE /\ a_pc' = "done"
               /\ a_result' = "False"
    /\ UNCHANGED <<a_duration, concurrency, client_rate, a_port, a_client_port, connections>>
    /\ UNCHANGED o_vars
    /\ UNCHANGED NotExperiment

\* experiment_client.py lines 74-76 and 32-38: the remote client draws the port of its
\* next iperf3 process, which connects to that port of the server host; an iperf server
\* started with -1 ends after the one client it accepts
A_ClientConnect ==
    /\ a_pc = "step2"
    /\ Len(connections) < TotalClients
    /\ LET port == a_client_port
           server == IF port \in DOMAIN srv THEN srv[port].state ELSE "none"
       IN  /\ connections' = Append(connections, [port |-> port, server |-> server])
           /\ a_client_port' = NextPort(port)
           /\ srv' = IF server = "running"
                     THEN [srv EXCEPT ![port].state = "exited"]
                     ELSE srv
    /\ UNCHANGED <<a_pc, a_duration, concurrency, client_rate, a_port, a_result>>
    /\ UNCHANGED <<o_pc, o_duration, o_cps, initial_port, o_i, server_processes,
                   monitor_process, flow_monitor_process, mon, o_k, o_after, o_signals,
                   o_path, o_cleanups>>
    /\ UNCHANGED NotExperiment

\* lines 71-73: run_ssh_command returns when the remote client has ended
A_ClientReturned ==
    /\ a_pc = "step2"
    /\ Len(connections) = TotalClients
    /\ a_pc' = "wait"
    /\ UNCHANGED <<a_duration, concurrency, client_rate, a_port, a_client_port, connections,
                   a_result>>
    /\ UNCHANGED o_vars
    /\ UNCHANGED NotExperiment

\* lines 76-81 and 83-112: the wait of 2 * (duration + delay) seconds, then
\* check_experiment_results looks for the experiment in the copied datastore
A_WaitAndCheck ==
    /\ a_pc = "wait"
    /\ a_pc' = "done"
    /\ \E found \in {"True", "False"} : a_result' = found
    /\ UNCHANGED <<a_duration, concurrency, client_rate, a_port, a_client_port, connections>>
    /\ UNCHANGED o_vars
    /\ UNCHANGED NotExperiment

\* lines 48-50: run_single_experiment is called with its parameters
AInit ==
    /\ \E d \in 1 .. MaxServers, cs \in 1 .. MaxServers, cc \in 1 .. MaxServers :
          /\ d * cs <= MaxServers
          /\ d * cc <= MaxServers
          /\ ANew("start", d, cs, cc, InitialPort)
    /\ OIdle
    /\ TIdle
    /\ CIdle
    /\ SIdle
    /\ DIdle

ANext ==
    \/ A_StartServer
    \/ A_ServerReturned
    \/ A_StartClient
    \/ A_ClientConnect
    \/ A_ClientReturned
    \/ A_WaitAndCheck
    \/ ORun

SpecExperiment == AInit /\ [][ANext]_vars

\* ====================================================== properties: tracker
\* The ticks whose log lines have been written.
LoggedTick(k) == k < Len(hist) \/ (t_pc # "log" /\ t_fault # "sink_raised")

\* The log entries written at tick k for flow f.
EventsFor(f, k) == {i \in DOMAIN log : log[i].flow = f /\ log[i].tick = k}

\* f was in the snapshot of tick k-1 and is not in the snapshot of tick k.
ClosedAt(f, k) == k > 1 /\ f \in hist[k-1].flows /\ f \notin hist[k].flows

\* The first tick of the uninterrupted presence of f that ends with tick k.
PresenceStart(f, k) ==
    CHOOSE j \in 1..k : /\ \A i \in j..k : f \in hist[i].flows
                        /\ (j = 1 \/ f \notin hist[j-1].flows)

\* C1: the run ends only when the time elapsed since tracker start has reached the
\* configured duration D, and a tick begins only while elapsed < D, whatever flows
\* opened or closed.
C1_EndDependsOnlyOnD ==
    /\ (t_pc = "done" => clock - start_ts >= cfg_duration)
    /\ (t_pc = "snapshot" => loop_start_time - start_ts < cfg_duration)

\* C2: at every tick k whose lines are written, there is an event for flow f exactly
\* when f was in snapshot k-1 and is not in snapshot k; it is the only one, its start
\* is the time of the first tick of that presence of f and its end is the time of tick k.
C2_EventIffClosed ==
    \A k \in DOMAIN hist : LoggedTick(k) =>
        \A f \in Flows :
            IF ClosedAt(f, k)
            THEN /\ Cardinality(EventsFor(f, k)) = 1
                 /\ \A i \in EventsFor(f, k) :
                        /\ log[i].line.start = hist[PresenceStart(f, k-1)].now
                        /\ log[i].line.end = hist[k].now
                        /\ log[i].line.duration = log[i].line.end - log[i].line.start
            ELSE EventsFor(f, k) = {}

\* C7: two events of one flow are separated by a tick without the flow followed by a
\* tick with it, and a flow that stays absent after its close has no later event.
C7_OneEventPerLifetime ==
    \A i, j \in DOMAIN log : (i < j /\ log[i].flow = log[j].flow) =>
        \E a, b \in DOMAIN hist :
            /\ log[i].tick <= a /\ a < b /\ b < log[j].tick
            /\ log[i].flow \notin hist[a].flows
            /\ log[i].flow \in hist[b].flows

\* C7 witness: a flow was closed and logged once, and the run is over.
C7_Witness ==
    /\ t_pc = "done"
    /\ \E f \in Flows : \E k \in DOMAIN hist :
          ClosedAt(f, k) /\ Cardinality({i \in DOMAIN log : log[i].flow = f}) = 1

\* C8: after the insert step of tick k, a flow of snapshot k that was not in snapshot
\* k-1 (or k is the first tick) is in the table with first_seen = the time of tick k.
C8_FirstSeenIsTickTime ==
    (t_pc \in {"log", "sleep", "cond", "done"} /\ Len(hist) >= 1) =>
        LET k == Len(hist) IN
        \A f \in hist[k].flows : (k = 1 \/ f \notin hist[k-1].flows) =>
            /\ f \in Keys(observed_flows)
            /\ Get(observed_flows, f) = hist[k].now
            /\ hist[k].now = now

\* C8 witness: a flow appears at a tick later than the first, after the clock has moved.
C8_Witness ==
    /\ t_pc = "log" /\ Len(hist) >= 2
    /\ hist[Len(hist)].now > hist[1].now
    /\ \E f \in hist[Len(hist)].flows :
          f \notin hist[Len(hist)-1].flows /\ Get(observed_flows, f) = hist[Len(hist)].now

\* C9: every line of the log has duration = end - start and end >= start.
C9_DurationIsEndMinusStart ==
    \A i \in DOMAIN log :
        /\ log[i].line.duration = log[i].line.end - log[i].line.start
        /\ log[i].line.end >= log[i].line.start
        /\ log[i].line.duration >= 0

\* C9 witness: a line with a positive duration has been written.
C9_Witness == \E i \in DOMAIN log : log[i].line.duration > 0

\* The table holds at most one entry per flow.
OneEntryPerFlow ==
    \A i, j \in DOMAIN observed_flows :
        observed_flows[i].flow = observed_flows[j].flow => i = j

\* A flow that is in the table before and after a step keeps its first_seen.
FirstSeenKept ==
    \A f \in Keys(observed_flows) \cap Keys(observed_flows') :
        Get(observed_flows', f) = Get(observed_flows, f)

\* C10: a flow has at most one entry in the open-flow table, and no tick changes the
\* first_seen of a flow that stays in the table.
C10_OneEntryFirstSeenFixed == [](OneEntryPerFlow) /\ [][FirstSeenKept]_vars

\* C10 witness: a flow seen at two ticks with different times still has the first time.
C10_Witness ==
    /\ Len(hist) >= 2
    /\ t_pc = "log"
    /\ \E f \in hist[Len(hist)].flows \cap hist[Len(hist)-1].flows :
          /\ hist[Len(hist)].now > hist[Len(hist)-1].now
          /\ f \in Keys(observed_flows)
          /\ Get(observed_flows, f) < hist[Len(hist)].now

\* C11: when run_flow_monitor has returned, the log holds no event for a flow that was
\* in the last snapshot taken; flows still open are not closed at shutdown.
C11_OpenFlowsNotEmitted ==
    (t_pc = "done" /\ Len(hist) >= 1) =>
        \A f \in hist[Len(hist)].flows : \A i \in DOMAIN log : log[i].flow # f

\* C11 witness: the run is over, a flow is still open, and another one was logged.
C11_Witness ==
    /\ t_pc = "done"
    /\ Len(hist) >= 1
    /\ hist[Len(hist)].flows # {}
    /\ Keys(observed_flows) = hist[Len(hist)].flows
    /\ Len(log) >= 1

\* C14: the tracker's sleep ends on the grid of start_ts: after the k-th tick the loop
\* wakes at start_ts + k*check_interval, or at once when that time has passed, so that
\* an overrun of one tick does not shift the ticks after it.
C14_TicksOnOriginGrid ==
    [][(t_pc = "sleep" /\ t_pc' = "cond") =>
           clock' = Max(clock, start_ts + Len(hist) * check_interval)]_vars

\* C17: a tick whose snapshot source fails is skipped: the table of open flows is left
\* as it was, nothing is emitted for the tick, and the loop goes on to the next tick.
C17_FailedSnapshotSkipsTick ==
    [][(t_pc = "snapshot" /\ t_fault' \in {"source_empty", "source_raised"}) =>
           /\ observed_flows' = observed_flows
           /\ ended_flows_within_tick' = <<>>
           /\ t_pc' # "raised"]_vars

\* C25: once a tick has registered the new flows and removed the ended ones, the keys
\* of the table are exactly the flows of the snapshot of that tick, and they stay so
\* until the next tick does the same.
C25_TableKeysAreSnapshot ==
    Len(hist) >= 1 =>
        /\ Keys(observed_flows) = hist[Len(hist)].flows
        /\ Keys(observed_flows) = current_flows

\* C25 witness: a tick has removed one flow and registered another.
C25_Witness ==
    /\ t_pc = "log"
    /\ Len(hist) >= 2
    /\ hist[Len(hist) - 1].flows \ hist[Len(hist)].flows # {}
    /\ hist[Len(hist)].flows \ hist[Len(hist) - 1].flows # {}
    /\ Keys(observed_flows) = current_flows

\* C26: whatever the check interval, a flow that a tick removes from the table (it was
\* in the snapshot before and is not in this one) has exactly one event in the log
\* lines of that tick.
C26_RemovalEmitsEvent ==
    \A k \in DOMAIN hist : (k > 1 /\ LoggedTick(k)) =>
        \A f \in hist[k-1].flows \ hist[k].flows : Cardinality(EventsFor(f, k)) = 1

\* ======================================================= properties: client
\* The elements of a sequence.
Range(q) == {q[i] : i \in DOMAIN q}

\* The ports of the launch tasks of the current batch that returned a handle.
StartedPorts == {futures[i].port : i \in {j \in DOMAIN futures : futures[j].state = "ok"}}

\* C3 as stated: when spawn_client_batch returns, its result has one entry per launch
\* attempt, C in all, the failed ones included.
C3_AllAttemptsRecorded ==
    c_pc = "extend" =>
        /\ Len(batch_processes) = clients_per_second
        /\ \A i \in DOMAIN futures : futures[i].port \in Range(batch_processes)

\* C3 as amended: when spawn_client_batch returns, exactly C launch attempts have been
\* made and resolved, on C different ports, and its result holds exactly the handles of
\* the attempts that succeeded, each once; a failed attempt is not in the result.
C3_AttemptsMadeSuccessesRecorded ==
    c_pc = "extend" =>
        /\ Len(futures) = clients_per_second
        /\ \A i \in DOMAIN futures : futures[i].state \in LaunchResults
        /\ \A i, j \in DOMAIN futures : futures[i].port = futures[j].port => i = j
        /\ Range(batch_processes) = StartedPorts
        /\ Len(batch_processes) = Cardinality(StartedPorts)

\* C3 witness: a batch has returned with a failed and a successful launch.
C3_Witness ==
    /\ c_pc = "extend"
    /\ \E i, j \in DOMAIN futures :
         futures[i].state \in LaunchFailures /\ futures[j].state = "ok"

\* C4: once a signal has been handled, every process that was live when it arrived has
\* been sent terminate exactly once, and no process more than once.
C4_CleanupTerminatesEachLiveOnce ==
    signals > 0 =>
        /\ \A p \in live_at_signal : proc[p].terms = 1
        /\ \A p \in DOMAIN proc : proc[p].terms <= 1

\* C5: a signal does not cut short what the main thread is doing: a batch being spawned
\* goes on to its end, a sleep goes on to the next tick, a poll round to its end.
C5_NoPreemption ==
    [][ /\ c_pc \in {"submit", "collect", "extend"}
            => c_pc' \in {"submit", "collect", "extend", "sleep", "loop"}
        /\ c_pc = "sleep" => c_pc' \in {"sleep", "loop"}
        /\ c_pc = "poll" => c_pc' \in {"poll", "wait_cond"} ]_vars

\* C6: once a signal has been delivered, no further batch begins, no process of a batch
\* later than those begun is launched, and no further poll round is made.
C6_NoTickAfterStop ==
    [][ (signals > 0 \/ stop_event) =>
            /\ batches_started' = batches_started
            /\ \A p \in DOMAIN proc' \ DOMAIN proc : proc'[p].batch <= batches_started
            /\ poll_rounds' = poll_rounds ]_vars

\* C6 witness: the run was stopped by a signal after a batch and before the last one.
C6_Witness ==
    /\ stop_event
    /\ c_pc = "exited"
    /\ batches_started >= 1
    /\ batches_started < c_duration

\* C12: the i-th port drawn in a run (counting from 0, over all batches) is
\* initial_port + i, whether or not earlier launches succeeded; so the ports drawn are
\* strictly increasing and none is drawn twice.
C12_PortsSequential ==
    /\ \A i \in DOMAIN attempts : attempts[i] = InitialPort + (i - 1)
    /\ \A i, j \in DOMAIN attempts : i < j => attempts[i] < attempts[j]
    /\ current_port = InitialPort + Len(attempts)

\* C12 witness: a second batch draws ports after the first launch of the run failed.
C12_Witness ==
    /\ batches_started >= 2
    /\ Len(attempts) >= 3
    /\ attempts[1] \notin DOMAIN proc
    /\ attempts[Len(attempts)] \in DOMAIN proc

\* The positions of the main thread inside spawn_client_batch.
InBatch == {"submit", "collect"}

\* C16: launch tasks run only while the main thread is inside spawn_client_batch (or on
\* its way out of the program after a signal) and all belong to the one batch that is
\* being spawned; when the batch has returned, in the sleep of its tick and at the start
\* of the next batch, none of its launch tasks is still running.
C16_JoinBarrier ==
    /\ (\E i \in DOMAIN futures : futures[i].state = "pending")
          => c_pc \in InBatch \cup {"exiting"}
    /\ c_pc \in InBatch => \A i \in DOMAIN futures : futures[i].batch = batch_num + 1
    /\ \A i \in DOMAIN futures : futures[i].batch = batches_started

\* C16 witness: the driver sleeps after a batch of at least two launch attempts, all
\* resolved, and another batch is to come.
C16_Witness ==
    /\ c_pc = "sleep"
    /\ Len(futures) >= 2
    /\ \A i \in DOMAIN futures : futures[i].state # "pending"
    /\ batch_num < c_duration - 1

\* The positions of the main thread after the loop of run_experiment.
AfterLoop == {"wait_init", "wait_cond", "poll", "done"}

\* C18: a failed launch ends neither the batch nor the run. Unless a signal arrives the
\* run never exits early; every batch returns with all its attempts made and every
\* handle that was started in its result; and when the loop is over, every batch has
\* run, every attempt of every batch was made, and every process started is among the
\* handles of the run.
C18_SpawnFailureNeverAborts ==
    /\ signals = 0 => c_pc \notin {"exiting", "exited"}
    /\ c_pc = "extend" =>
          /\ client_num = clients_per_second
          /\ StartedPorts \subseteq Range(batch_processes)
    /\ (signals = 0 /\ c_pc \in AfterLoop) =>
          /\ batches_started = c_duration
          /\ Len(attempts) = c_duration * clients_per_second
          /\ c_pc = "wait_init" => DOMAIN proc = Range(active_processes)

\* C18 witness: the loop is over in a run of at least two batches of at least two
\* launches whose very first launch failed; a later launch of the first batch and a
\* launch of a later batch succeeded.
C18_Witness ==
    /\ c_pc = "wait_init"
    /\ signals = 0
    /\ c_duration >= 2
    /\ clients_per_second >= 2
    /\ attempts[1] \notin DOMAIN proc
    /\ \E p, q \in DOMAIN proc : proc[p].batch = 1 /\ proc[q].batch >= 2

\* While wait_for_clients runs, every handle is either still polled or was found exited.
AllHandlesPolled ==
    c_pc \in {"wait_cond", "poll", "done"} =>
        /\ completed + Len(active_processes) = total_clients
        /\ \A p \in DOMAIN proc : p \notin Range(active_processes) => ~Live(proc, p)

\* wait_for_clients has returned only if no handle is left; no signal was taken.
ReturnsOnlyWhenEmpty ==
    c_pc = "done" =>
        /\ active_processes = <<>>
        /\ completed = total_clients
        /\ signals = 0

\* C20: the waiter drops a handle only when it has found it exited, it returns only when
\* no handle is left (cancellation ends the run by way of sys.exit), and when every
\* process exits in the end it does return, with no handle left, unless a signal ends the
\* run before.
C20_WaiterReturnsWhenAllExited ==
    /\ [](AllHandlesPolled /\ ReturnsOnlyWhenEmpty)
    /\ <>((c_pc = "done" /\ active_processes = <<>>) \/ signals > 0)

\* C20 witness: the waiter has returned after at least two poll rounds over at least
\* two handles.
C20_Witness ==
    /\ c_pc = "done"
    /\ poll_rounds >= 2
    /\ total_clients >= 2
    /\ completed = total_clients

\* C19: a sink that cannot be written is fatal and reaches the caller: when the tracker
\* cannot write or flush an event, run_flow_monitor is left by the error; when the log
\* file of a client cannot be opened, the generator's run does not go on past the batch
\* of that launch but is left by the error.
C19_SinkFailureIsFatal ==
    /\ t_fault = "sink_raised" => t_pc = "raised"
    /\ (\E i \in DOMAIN futures : futures[i].state = "open_failed" /\ futures[i].collected)
          => c_pc \in InBatch \cup {"exiting", "exited"}

\* C21: in wait_for_clients, before and after every poll round, completed + active =
\* total; completed never decreases; no handle is listed twice; and a round adds to
\* completed exactly the handles it removes from the active set, which never return to
\* it, so that each handle is counted at most once.
C21_ProgressCountersConsistent ==
    [][(c_pc \in {"wait_cond", "poll"}) =>
          /\ completed + Len(active_processes) = total_clients
          /\ completed' + Len(active_processes') = total_clients'
          /\ completed' >= completed
          /\ Cardinality(Range(active_processes)) = Len(active_processes)
          /\ Range(active_processes') \subseteq Range(active_processes)
          /\ completed' - completed
                = Cardinality(Range(active_processes) \ Range(active_processes')) ]_vars

\* C21 witness: after two poll rounds some handles have been counted and some are
\* still polled.
C21_Witness ==
    /\ c_pc = "wait_cond"
    /\ poll_rounds >= 2
    /\ completed >= 1
    /\ active_processes # <<>>

\* The step is that of a launch task: a pending future resolves.
LaunchStep(i) == futures[i].state = "pending" /\ futures'[i].state # "pending"

\* C24: only the main thread moves the port counter, by one and while it submits a
\* task, which gets the value drawn; a launch task leaves the counter alone and starts
\* its process on the port it was given; so the tasks of a batch hold different ports
\* and every port drawn is the port of a task.
C24_PortCounterConfined ==
    [][ /\ current_port' # current_port =>
              /\ c_pc = "submit"
              /\ current_port' = current_port + 1
              /\ futures' = Append(futures, futures'[Len(futures')])
              /\ futures'[Len(futures')].port = current_port
        /\ \A i \in DOMAIN futures : (i \in DOMAIN futures' /\ LaunchStep(i)) =>
              /\ current_port' = current_port
              /\ futures'[i].port = futures[i].port
              /\ DOMAIN proc' \ DOMAIN proc \subseteq {futures[i].port}
        /\ \A i, j \in DOMAIN futures' : futures'[i].port = futures'[j].port => i = j
        /\ DOMAIN proc' \subseteq Range(attempts') ]_vars

\* C24 witness: two launch tasks of one batch ran concurrently: the task submitted
\* later has started its process while an earlier one is still pending.
C24_Witness ==
    /\ c_pc \in InBatch
    /\ \E i, j \in DOMAIN futures :
          i < j /\ futures[i].state = "pending" /\ futures[j].state = "ok"

\* C27: wherever the main thread is when a signal can be handled, every client process
\* that has been started and is still running is in active_processes, the processes of
\* a batch that is still being spawned included.
C27_LiveHandlesAreActive ==
    c_pc \notin {"done", "exited"} =>
        \A p \in DOMAIN proc : Live(proc, p) => p \in Range(active_processes)

\* ===================================================== properties: schedule
\* The deadline of the batch with number n + 1, counted from the fixed origin.
Deadline(n) == experiment_start_time + n * Resolution

\* C13: the sleep after batch k is max(0, origin + (k+1)*T - now), and a batch that
\* follows one finished by its deadline starts exactly at origin + (k+1)*T, however late
\* earlier batches were (T is one second, Resolution units of the clock).
C13_DeadlinesFromOrigin ==
    /\ s_pc = "computed" =>
          sleep_time = Max(0, Deadline(Len(batch_log)) - batch_log[Len(batch_log)].finish)
    /\ \A n \in DOMAIN batch_log :
          (n < Len(batch_log) /\ batch_log[n].finish <= Deadline(n)) =>
              batch_log[n + 1].start = Deadline(n)

\* C13 witness: the first batch overran its interval, the second began late and
\* finished in time, and the third began on its deadline.
C13_Witness ==
    /\ Len(batch_log) >= 3
    /\ batch_log[1].finish > Deadline(1)
    /\ batch_log[2].start > Deadline(1)
    /\ batch_log[2].finish < Deadline(2)
    /\ batch_log[3].start = Deadline(2)

\* C15: a run of N ticks spawns the batches 1..N in order, and a batch that follows an
\* overrun begins at once, when the overrunning batch has finished.
C15_NoTickSkipped ==
    /\ \A n \in DOMAIN batch_log : batch_log[n].num = n
    /\ Len(batch_log) <= s_duration
    /\ s_pc = "done" => Len(batch_log) = s_duration
    /\ \A n \in DOMAIN batch_log :
          (n < Len(batch_log) /\ batch_log[n].finish >= Deadline(n)) =>
              batch_log[n + 1].start = batch_log[n].finish
    /\ (s_pc = "computed" /\ batch_log[Len(batch_log)].finish >= Deadline(Len(batch_log)))
          => sleep_time = 0

\* C15 witness: a run of three batches is over and its first batch overran two intervals.
C15_Witness ==
    /\ s_pc = "done"
    /\ Len(batch_log) = 3
    /\ batch_log[1].finish >= Deadline(2)

\* ======================================================== properties: store
\* The value of a cell text: a number whatever its formatting, or the text.
Norm(t) == IF t \in IntTexts \cup FloatTexts THEN FloatCanon(t) ELSE t

\* Two rows are the same record: the same id, and every other field of the same value.
SameRecord(r1, r2) ==
    /\ r1.id = r2.id
    /\ \A f \in Fields \ {"id"} : Norm(r1[f]) = Norm(r2[f])

\* The step is a call of save_experiment.
IsSave == d_clock' = d_clock + 1

\* The row of the file that the call of this step updates, or 0 when it appends.
UpdatedRow ==
    LET df == ReadCsv(csv_file)
        found == {i \in DOMAIN df : IdMatches(df[i].id, d_call'[1].id)}
    IN  IF found = {} THEN 0 ELSE CHOOSE i \in found : \A j \in found : i <= j

\* C22: the store holds one row per experiment id ever saved; saving an id saved
\* before leaves the number of rows as it is; saving a new id appends one row and leaves
\* every row there was as it was.
C22_UpsertById ==
    [][IsSave =>
          /\ Len(csv_file') = Cardinality(d_saved')
          /\ {csv_file'[i].id : i \in DOMAIN csv_file'} = d_saved'
          /\ d_call'[1].id \in d_saved => Len(csv_file') = Len(csv_file)
          /\ d_call'[1].id \notin d_saved =>
                /\ Len(csv_file') = Len(csv_file) + 1
                /\ \A i \in DOMAIN csv_file : SameRecord(csv_file'[i], csv_file[i]) ]_vars

\* C23 as stated: when a call updates a record, each field given with a non-empty value
\* takes that value, every other field of the record keeps its value, and the other
\* records are unchanged.
C23_OnlyGivenFieldsChange ==
    [][(IsSave /\ UpdatedRow # 0) =>
          /\ Len(csv_file') = Len(csv_file)
          /\ \A i \in DOMAIN csv_file : \A f \in Fields :
                IF i = UpdatedRow /\ f # "id" /\ d_call'[1][f] # ""
                THEN csv_file'[i][f] = d_call'[1][f]
                ELSE csv_file'[i][f] = csv_file[i][f]
                       \/ (f # "id" /\ Norm(csv_file'[i][f]) = Norm(csv_file[i][f])) ]_vars

\* C23 as amended: the same, but the timestamp of the updated record, when none is
\* given, becomes the time of the call.
C23_GivenFieldsAndTimestampChange ==
    [][(IsSave /\ UpdatedRow # 0) =>
          /\ Len(csv_file') = Len(csv_file)
          /\ \A i \in DOMAIN csv_file : \A f \in Fields :
                IF i = UpdatedRow /\ f # "id" /\ d_call'[1][f] # ""
                THEN csv_file'[i][f] = d_call'[1][f]
                ELSE IF i = UpdatedRow /\ f = "timestamp"
                THEN csv_file'[i][f] = NowText(d_clock')
                ELSE csv_file'[i][f] = csv_file[i][f]
                       \/ (f # "id" /\ Norm(csv_file'[i][f]) = Norm(csv_file[i][f])) ]_vars

\* C23 witness: the second call updated the only record, gave a size and no Freq, and
\* the record has a Freq.
C23_Witness ==
    /\ d_clock = 2
    /\ Len(csv_file) = 1
    /\ d_call[1].Freq = ""
    /\ d_call[1].size # ""
    /\ csv_file[1].Freq # ""


\* ================================================= properties: orchestrator

\* Every process a Popen of the orchestrator has started.
Started(p) == p.state # "none"

\* C30: once control has left run, every monitor that was started has exited, every
\* iperf server that was started and is still live has been sent terminate, and where
\* any process was started a cleanup has run to its end.
C30_CleanupOnEveryExit ==
    o_pc = "exited" =>
        /\ \A name \in DOMAIN mon : mon[name].state # "running"
        /\ \A port \in DOMAIN srv : srv[port].state = "running" => srv[port].terms >= 1
        /\ (\E port \in DOMAIN srv : Started(srv[port])) => o_cleanups >= 1


\* =================================================== properties: experiment

\* C28: while the client side is running, the orchestrator started in step 1 is still
\* running, with no cleanup done.
C28_ClientStartedWhileServerRuns ==
    a_pc = "step2" => (o_pc \notin {"idle", "exited"} /\ o_cleanups = 0)

\* C29: once the client has completed its run, every port it connected to had a live
\* server, its ports are among the server ports p .. p + D*Cs - 1, and no port was
\* used by two clients.
C29_EveryClientPortHasServer ==
    a_pc \in {"wait", "done"} /\ Len(connections) = TotalClients =>
        /\ \A n \in DOMAIN connections : connections[n].server = "running"
        /\ {connections[n].port : n \in DOMAIN connections}
               \subseteq ServerPorts(a_port, a_duration * concurrency)
        /\ \A m, n \in DOMAIN connections :
               connections[m].port = connections[n].port => m = n

====
